---- MODULE Spec2Model ----
(***************************************************************************)
(* Model of kws_streaming/models/att_rnn.py: the hyperparameter            *)
(* registration model_parameters(parser_nn) and the layer-graph            *)
(* construction model(flags) of the BiLSTM attention keyword-spotting      *)
(* network.                                                                *)
(*                                                                         *)
(* The graph is a sequence of layer records in creation order.  A layer    *)
(* is [kind, cfg, inbound, shape]: inbound lists the indices of the layers *)
(* whose outputs it is called on, shape is its static output shape         *)
(* <<batch, ...>>.  Every statement of model() is one action; pc is the    *)
(* position in the function body.                                          *)
(***************************************************************************)
EXTENDS Integers, Sequences, FiniteSets, TLC

VARIABLES
  parser,       \* calls received by parser_nn, in order
  flags,        \* the flags object given to model()
  pc,           \* position in model_parameters() / model()
  rnn,          \* local rnn: the selected recurrent layer class
  layers,       \* layer objects created so far, in creation order
  net,          \* local net: index of the layer whose output it holds
  input_audio,  \* local input_audio: index of the Input layer
  it,           \* remaining items of the for-loop being executed
  middle,       \* local middle
  feature_dim,  \* local feature_dim
  query,        \* local query: index of the query Dense layer
  att_weights,  \* local att_weights: index of the layer it holds
  raised,       \* the exception that ended the call, if any
  result,       \* the returned tf.keras.Model
  prev          \* what the call before returned, when made with equal flags

vars == <<parser, flags, pc, rnn, layers, net, input_audio, it, middle,
          feature_dim, query, att_weights, raised, result, prev>>

locals == <<rnn, layers, net, input_audio, it, middle, feature_dim, query,
            att_weights, raised, result>>

\* ------------------------------------------------------------------ bounds

MaxLen == 2        \* longest parsed cnn_* list
MaxDense == 2      \* longest parsed units2 / act2 list
MaxRnnLayers == 2  \* largest flags.rnn_layers
MaxFrames == 3     \* largest number of frames SpeechFeatures produces

\* ------------------------------------------------------------------ helpers

Min(a, b) == IF a <= b THEN a ELSE b

Range(s) == {s[i] : i \in DOMAIN s}

\* Python list.pop(k) on a shape, 1-based: the shape without its k-th entry.
Pop(s, k) == [i \in 1..(Len(s) - 1) |-> IF i < k THEN s[i] ELSE s[i + 1]]

NoException == [type |-> "None", args |-> <<>>]

NoModel == [inputs |-> <<>>, outputs |-> <<>>]

\* ------------------------------------------------- model_parameters(parser)

AddArg(name, type, default) ==
  [method |-> "add_argument", name |-> name, type |-> type, default |-> default]

\* Mutant: the rnn_units registration repeats the name of rnn_layers.
ArgCallsDupName ==
  << AddArg("--cnn_filters", "str", "10,1"),
     AddArg("--cnn_kernel_size", "str", "(5,1),(5,1)"),
     AddArg("--cnn_act", "str", "'relu','relu'"),
     AddArg("--cnn_dilation_rate", "str", "(1,1),(1,1)"),
     AddArg("--cnn_strides", "str", "(1,1),(1,1)"),
     AddArg("--rnn_layers", "int", "2"),
     AddArg("--rnn_type", "str", "lstm"),
     AddArg("--rnn_layers", "int", "64"),
     AddArg("--dropout1", "float", "0.5"),
     AddArg("--units2", "str", "64,32"),
     AddArg("--act2", "str", "'relu','linear'") >>

\* The add_argument calls of model_parameters, in source order.  A default
\* is the text of the Python literal; type is the converter passed as type=.
ArgCalls ==
  << AddArg("--cnn_filters", "str", "10,1"),
     AddArg("--cnn_kernel_size", "str", "(5,1),(5,1)"),
     AddArg("--cnn_act", "str", "'relu','relu'"),
     AddArg("--cnn_dilation_rate", "str", "(1,1),(1,1)"),
     AddArg("--cnn_strides", "str", "(1,1),(1,1)"),
     AddArg("--rnn_layers", "int", "2"),
     AddArg("--rnn_type", "str", "lstm"),
     AddArg("--rnn_units", "int", "64"),
     AddArg("--dropout1", "float", "0.5"),
     AddArg("--units2", "str", "64,32"),
     AddArg("--act2", "str", "'relu','linear'") >>

\* One statement of model_parameters: the next parser_nn.add_argument(...).
AddArgument ==
  /\ pc = "model_parameters"
  /\ Len(parser) < Len(ArgCalls)
  /\ parser' = Append(parser, ArgCalls[Len(parser) + 1])
  /\ UNCHANGED <<flags, pc, locals, prev>>

\* model_parameters falls off its end and returns None.
ParametersReturn ==
  /\ pc = "model_parameters"
  /\ Len(parser) = Len(ArgCalls)
  /\ pc' = "select_rnn"
  /\ UNCHANGED <<parser, flags, locals, prev>>

\* ------------------------------------------------------------------- flags

\* Values of the parsed lists, by position (inputs).
FilterAt(i) == i + 1
KernelAt(i) == <<6 - i, 1>>
ActAt(i) == IF i % 2 = 1 THEN "relu" ELSE "linear"
DilationAt(i) == <<1, 1>>
StrideAt(i) == IF i % 2 = 1 THEN <<2, 1>> ELSE <<1, 2>>
UnitsAt(i) == 5 - i

ListOf(At(_), n) == [i \in 1..n |-> At(i)]

\* What parse(flags.<name>) returns is kept in the flags record directly:
\* kws_streaming.models.utils.parse is a pure function of the flag text.
\* frames and features stand for the time and feature sizes that the
\* SpeechFeatures layer derives from desired_samples, window_size_ms,
\* window_stride_ms, sample_rate and the mel/dct settings.
MkFlags(type, nl, nf, nk, na, nd, ns, nu, n2, fr) ==
  [ rnn_type |-> type, rnn_layers |-> nl, rnn_units |-> 3,
    cnn_filters |-> ListOf(FilterAt, nf),
    cnn_kernel_size |-> ListOf(KernelAt, nk),
    cnn_act |-> ListOf(ActAt, na),
    cnn_dilation_rate |-> ListOf(DilationAt, nd),
    cnn_strides |-> ListOf(StrideAt, ns),
    units2 |-> ListOf(UnitsAt, nu),
    act2 |-> ListOf(ActAt, n2),
    dropout1 |-> "0.5", label_count |-> 12,
    batch_size |-> 7, desired_samples |-> 16000,
    frames |-> fr, features |-> 4 ]

RnnTypeInputs == {"lstm", "gru", "rnn"}

\* Inputs with the five cnn_* lists of independent lengths.
FlagsCnn ==
  { MkFlags(t, 1, nf, nk, na, nd, ns, 1, 1, MaxFrames) :
      t \in {"lstm", "gru"}, nf \in 0..MaxLen, nk \in 0..MaxLen,
      na \in 0..MaxLen, nd \in 0..MaxLen, ns \in 0..MaxLen }

\* Inputs with every rnn_type, rnn_layers, sequence length and head size.
FlagsHead ==
  { MkFlags(t, nl, n, n, n, n, n, nu, n2, fr) :
      t \in RnnTypeInputs, nl \in 0..MaxRnnLayers, n \in 0..MaxLen,
      nu \in 0..MaxDense, n2 \in 0..MaxDense, fr \in 1..MaxFrames }

Flags == FlagsCnn \cup FlagsHead

\* ------------------------------------------------------------ model(flags)

Layer(kind, cfg, inbound, shape) ==
  [kind |-> kind, cfg |-> cfg, inbound |-> inbound, shape |-> shape]

NoCfg == [none |-> TRUE]

\* rnn_types = {'lstm': tf.keras.layers.LSTM, 'gru': tf.keras.layers.GRU}
rnn_types == [k \in {"lstm", "gru"} |-> IF k = "lstm" THEN "LSTM" ELSE "GRU"]

\* if flags.rnn_type not in rnn_types: ValueError(...)   (built, not raised)
\* rnn = rnn_types[flags.rnn_type]                        (KeyError if absent)
SelectRnn ==
  /\ pc = "select_rnn"
  /\ IF flags.rnn_type \in DOMAIN rnn_types
       THEN /\ rnn' = rnn_types[flags.rnn_type]
            /\ pc' = "input"
            /\ UNCHANGED raised
       ELSE /\ raised' = [type |-> "KeyError", args |-> <<flags.rnn_type>>]
            /\ pc' = "failed"
            /\ UNCHANGED rnn
  /\ UNCHANGED <<parser, flags, layers, net, input_audio, it, middle,
                 feature_dim, query, att_weights, result, prev>>

\* input_audio = tf.keras.layers.Input(shape=(desired_samples,), batch_size=...)
CreateInput ==
  /\ pc = "input"
  /\ layers' = Append(layers,
       Layer("Input", NoCfg, <<>>, <<flags.batch_size, flags.desired_samples>>))
  /\ input_audio' = Len(layers) + 1
  /\ pc' = "speech_features"
  /\ UNCHANGED <<parser, flags, rnn, net, it, middle, feature_dim, query,
                 att_weights, raised, result, prev>>

\* Static output shape of SpeechFeatures: [batch, time, feature].
SpeechFeaturesShape(f) == <<f.batch_size, f.frames, f.features>>

\* net = speech_features.SpeechFeatures(...)(input_audio)
SpeechFeatures ==
  /\ pc = "speech_features"
  /\ layers' = Append(layers,
       Layer("SpeechFeatures", NoCfg, <<input_audio>>, SpeechFeaturesShape(flags)))
  /\ net' = Len(layers) + 1
  /\ pc' = "expand_dims"
  /\ UNCHANGED <<parser, flags, rnn, input_audio, it, middle, feature_dim,
                 query, att_weights, raised, result, prev>>

\* net = tf.keras.backend.expand_dims(net)       (axis=-1: a trailing 1)
ExpandDims ==
  /\ pc = "expand_dims"
  /\ layers' = Append(layers,
       Layer("expand_dims", NoCfg, <<net>>, Append(layers[net].shape, 1)))
  /\ net' = Len(layers) + 1
  /\ pc' = "conv_for"
  /\ UNCHANGED <<parser, flags, rnn, input_audio, it, middle, feature_dim,
                 query, att_weights, raised, result, prev>>

\* Mutant: the loop is driven by the shortest list but one item short.
Zip5Short(a, b, c, d, e) ==
  [i \in 1..(Min(Len(a), Min(Len(b), Min(Len(c), Min(Len(d), Len(e))))) - 1) |->
     <<a[i], b[i], c[i], d[i], e[i]>>]

\* Python zip over five lists: it stops with the shortest.
Zip5(a, b, c, d, e) ==
  [i \in 1..Min(Len(a), Min(Len(b), Min(Len(c), Min(Len(d), Len(e))))) |->
     <<a[i], b[i], c[i], d[i], e[i]>>]

\* Python zip over two lists.
Zip2(a, b) ==
  [i \in 1..Min(Len(a), Len(b)) |-> <<a[i], b[i]>>]

\* range(n): empty when n <= 0.
PyRange(n) == [i \in 1..n |-> i - 1]

\* Mutant: the loop consumes flags.cnn_filters while iterating over it.
ConvForConsume ==
  /\ pc = "conv_for"
  /\ it' = Zip5(flags.cnn_filters, flags.cnn_kernel_size, flags.cnn_act,
                flags.cnn_dilation_rate, flags.cnn_strides)
  /\ flags' = [flags EXCEPT !.cnn_filters = <<>>]
  /\ pc' = "conv"
  /\ UNCHANGED <<parser, rnn, layers, net, input_audio, middle,
                 feature_dim, query, att_weights, raised, result, prev>>

\* for filters, kernel_size, activation, dilation_rate, strides in zip(...)
ConvFor ==
  /\ pc = "conv_for"
  /\ it' = Zip5(flags.cnn_filters, flags.cnn_kernel_size, flags.cnn_act,
                flags.cnn_dilation_rate, flags.cnn_strides)
  /\ pc' = "conv"
  /\ UNCHANGED <<parser, flags, rnn, layers, net, input_audio, middle,
                 feature_dim, query, att_weights, raised, result, prev>>

\* ceil(n / s): output length of a padding='same' convolution.
SameOut(n, s) == (n + s - 1) \div s

\* Output shape of Conv2D(filters, strides, padding='same') on [b, h, w, c].
Conv2DShape(s, filters, strides) ==
  <<s[1], SameOut(s[2], strides[1]), SameOut(s[3], strides[2]), filters>>

\* net = tf.keras.layers.Conv2D(...)(net)
Conv2D ==
  /\ pc = "conv"
  /\ it # <<>>
  /\ LET item == Head(it)
         cfg == [filters |-> item[1], kernel_size |-> item[2],
                 activation |-> item[3], dilation_rate |-> item[4],
                 strides |-> item[5], padding |-> "same"]
     IN layers' = Append(layers,
          Layer("Conv2D", cfg, <<net>>,
                Conv2DShape(layers[net].shape, item[1], item[5])))
  /\ net' = Len(layers) + 1
  /\ pc' = "batch_norm"
  /\ UNCHANGED <<parser, flags, rnn, input_audio, it, middle, feature_dim,
                 query, att_weights, raised, result, prev>>

\* net = tf.keras.layers.BatchNormalization()(net); then the next loop item
BatchNormalization ==
  /\ pc = "batch_norm"
  /\ layers' = Append(layers,
       Layer("BatchNormalization", NoCfg, <<net>>, layers[net].shape))
  /\ net' = Len(layers) + 1
  /\ it' = Tail(it)
  /\ pc' = "conv"
  /\ UNCHANGED <<parser, flags, rnn, input_audio, middle, feature_dim,
                 query, att_weights, raised, result, prev>>

\* Output shape of Reshape((-1, d)) on a fully known shape [b, ...].
ReshapeShape(s, d) == <<s[1], (s[2] * s[3] * s[4]) \div d, d>>

\* shape = net.shape; net = Reshape((-1, shape[2] * shape[3]))(net)
\* and the head of: for _ in range(flags.rnn_layers)
Reshape ==
  /\ pc = "conv"
  /\ it = <<>>
  /\ LET shape == layers[net].shape
     IN layers' = Append(layers,
          Layer("Reshape", [target_shape |-> <<-1, shape[3] * shape[4]>>],
                <<net>>, ReshapeShape(shape, shape[3] * shape[4])))
  /\ net' = Len(layers) + 1
  /\ it' = PyRange(flags.rnn_layers)
  /\ pc' = "rnn"
  /\ UNCHANGED <<parser, flags, rnn, input_audio, middle, feature_dim,
                 query, att_weights, raised, result, prev>>

\* net = Bidirectional(rnn(flags.rnn_units, return_sequences=True, unroll=True))(net)
\* merge_mode is the default 'concat': the feature axis is 2 * units.
Bidirectional ==
  /\ pc = "rnn"
  /\ it # <<>>
  /\ LET s == layers[net].shape
         cfg == [cell |-> rnn, units |-> flags.rnn_units,
                 return_sequences |-> TRUE, unroll |-> TRUE]
     IN layers' = Append(layers,
          Layer("Bidirectional", cfg, <<net>>, <<s[1], s[2], 2 * flags.rnn_units>>))
  /\ net' = Len(layers) + 1
  /\ it' = Tail(it)
  /\ UNCHANGED <<parser, flags, pc, rnn, input_audio, middle, feature_dim,
                 query, att_weights, raised, result, prev>>

\* Mutant: the middle index rounded up instead of down.
MiddleIndexCeil(t) == (t + 1) \div 2

\* net.shape[1] // 2: Python floor division.
MiddleIndex(t) == t \div 2

\* feature_dim = net.shape[-1]; middle = net.shape[1] // 2
\* mid_feature = net[:, middle, :]; query = Dense(feature_dim)(mid_feature)
\* The slice needs 0 <= middle < net.shape[1]; otherwise TensorFlow rejects it.
MidQuery ==
  /\ pc = "rnn"
  /\ it = <<>>
  /\ LET s == layers[net].shape
         fd == s[Len(s)]
         mid == MiddleIndex(s[2])
         slice == Layer("slice", [index |-> mid], <<net>>, <<s[1], s[3]>>)
         dense == Layer("Dense", [units |-> fd, activation |-> "None"],
                        <<Len(layers) + 1>>, <<s[1], fd>>)
     IN /\ feature_dim' = fd
        /\ middle' = mid
        /\ IF 0 <= mid /\ mid < s[2]
             THEN /\ layers' = layers \o <<slice, dense>>
                  /\ query' = Len(layers) + 2
                  /\ pc' = "att_dot"
                  /\ UNCHANGED raised
             ELSE /\ raised' = [type |-> "ValueError", args |-> <<"slice index out of bounds">>]
                  /\ pc' = "failed"
                  /\ UNCHANGED <<layers, query>>
  /\ UNCHANGED <<parser, flags, rnn, net, input_audio, it, att_weights,
                 result, prev>>

\* Output shape of tf.keras.layers.Dot(axes=[a1, a2]) on shapes s1, s2
\* (axes 0-based, as in the source): both contracted axes and the batch axis
\* of s2 are removed; a rank-1 result gets a trailing 1.
DotShape(s1, s2, a1, a2) ==
  LET r == Pop(s1, a1 + 1) \o Pop(Pop(s2, a2 + 1), 1)
  IN IF Len(r) = 1 THEN Append(r, 1) ELSE r

\* Dot.build accepts only inputs whose contracted axes have equal sizes.
DotCompatible(s1, s2, a1, a2) == s1[a1 + 1] = s2[a2 + 1]

\* att_weights = Dot(axes=[1, 2])([query, net])
AttDotAxes == <<1, 2>>

\* net = Dot(axes=[1, 1])([att_weights, net])
AttApplyAxes == <<1, 1>>

DotLayer(a, b, axes) ==
  Layer("Dot", [axes |-> axes], <<a, b>>,
        DotShape(layers[a].shape, layers[b].shape, axes[1], axes[2]))

DotFails(a, b, axes) ==
  ~DotCompatible(layers[a].shape, layers[b].shape, axes[1], axes[2])

DimensionError ==
  [type |-> "ValueError", args |-> <<"Dimension incompatibility">>]

\* att_weights = tf.keras.layers.Dot(axes=[1, 2])([query, net])
AttDot ==
  /\ pc = "att_dot"
  /\ IF DotFails(query, net, AttDotAxes)
       THEN /\ raised' = DimensionError
            /\ pc' = "failed"
            /\ UNCHANGED <<layers, att_weights>>
       ELSE /\ layers' = Append(layers, DotLayer(query, net, AttDotAxes))
            /\ att_weights' = Len(layers) + 1
            /\ pc' = "att_softmax"
            /\ UNCHANGED raised
  /\ UNCHANGED <<parser, flags, rnn, net, input_audio, it, middle,
                 feature_dim, query, result, prev>>

\* att_weights = tf.keras.layers.Softmax(name='attSoftmax')(att_weights)
AttSoftmax ==
  /\ pc = "att_softmax"
  /\ layers' = Append(layers,
       Layer("Softmax", [name |-> "attSoftmax"], <<att_weights>>,
             layers[att_weights].shape))
  /\ att_weights' = Len(layers) + 1
  /\ pc' = "att_apply"
  /\ UNCHANGED <<parser, flags, rnn, net, input_audio, it, middle,
                 feature_dim, query, raised, result, prev>>

\* net = tf.keras.layers.Dot(axes=[1, 1])([att_weights, net])
AttApply ==
  /\ pc = "att_apply"
  /\ IF DotFails(att_weights, net, AttApplyAxes)
       THEN /\ raised' = DimensionError
            /\ pc' = "failed"
            /\ UNCHANGED <<layers, net>>
       ELSE /\ layers' = Append(layers, DotLayer(att_weights, net, AttApplyAxes))
            /\ net' = Len(layers) + 1
            /\ pc' = "dropout"
            /\ UNCHANGED raised
  /\ UNCHANGED <<parser, flags, rnn, input_audio, it, middle, feature_dim,
                 query, att_weights, result, prev>>

\* net = tf.keras.layers.Dropout(rate=flags.dropout1)(net)
\* and the head of: for units, activation in zip(parse(units2), parse(act2))
Dropout ==
  /\ pc = "dropout"
  /\ layers' = Append(layers,
       Layer("Dropout", [rate |-> flags.dropout1], <<net>>, layers[net].shape))
  /\ net' = Len(layers) + 1
  /\ it' = Zip2(flags.units2, flags.act2)
  /\ pc' = "dense"
  /\ UNCHANGED <<parser, flags, rnn, input_audio, middle, feature_dim,
                 query, att_weights, raised, result, prev>>

\* Output shape of Dense(units): the last axis becomes units.
DenseShape(s, units) == [i \in 1..Len(s) |-> IF i = Len(s) THEN units ELSE s[i]]

\* Mutant: the hidden Dense layer is applied but net is not rebound to it.
HiddenDenseNoRebind ==
  /\ pc = "dense"
  /\ it # <<>>
  /\ LET item == Head(it)
     IN layers' = Append(layers,
          Layer("Dense", [units |-> item[1], activation |-> item[2]], <<net>>,
                DenseShape(layers[net].shape, item[1])))
  /\ it' = Tail(it)
  /\ UNCHANGED <<parser, flags, pc, rnn, net, input_audio, middle, feature_dim,
                 query, att_weights, raised, result, prev>>

\* net = tf.keras.layers.Dense(units=units, activation=activation)(net)
HiddenDense ==
  /\ pc = "dense"
  /\ it # <<>>
  /\ LET item == Head(it)
     IN layers' = Append(layers,
          Layer("Dense", [units |-> item[1], activation |-> item[2]], <<net>>,
                DenseShape(layers[net].shape, item[1])))
  /\ net' = Len(layers) + 1
  /\ it' = Tail(it)
  /\ UNCHANGED <<parser, flags, pc, rnn, input_audio, middle, feature_dim,
                 query, att_weights, raised, result, prev>>

\* net = tf.keras.layers.Dense(units=flags.label_count)(net)
FinalDense ==
  /\ pc = "dense"
  /\ it = <<>>
  /\ layers' = Append(layers,
       Layer("Dense", [units |-> flags.label_count, activation |-> "None"],
             <<net>>, DenseShape(layers[net].shape, flags.label_count)))
  /\ net' = Len(layers) + 1
  /\ pc' = "return"
  /\ UNCHANGED <<parser, flags, rnn, input_audio, it, middle, feature_dim,
                 query, att_weights, raised, result, prev>>

\* return tf.keras.Model(input_audio, net)
ReturnModel ==
  /\ pc = "return"
  /\ result' = [inputs |-> <<input_audio>>, outputs |-> <<net>>]
  /\ pc' = "done"
  /\ UNCHANGED <<parser, flags, rnn, layers, net, input_audio, it, middle,
                 feature_dim, query, att_weights, raised, prev>>

\* Flags of a later call that differ from those of the call before.
FlagsAgain ==
  { f \in FlagsHead : f.frames = 1 /\ f.cnn_filters = <<>>
                      /\ f.units2 = <<>> /\ f.act2 = <<>> }

NoPrev == [layers |-> <<>>, result |-> NoModel]

\* A further call model(f): every local of the function starts afresh.  prev
\* remembers what the call before returned when f equals its flags.
ModelCall(f) ==
  /\ pc \in {"done", "failed"}
  /\ flags' = f
  /\ prev' = IF f = flags /\ pc = "done"
               THEN [layers |-> layers, result |-> result] ELSE NoPrev
  /\ pc' = "select_rnn"
  /\ rnn' = "None"
  /\ layers' = <<>>
  /\ net' = 0
  /\ input_audio' = 0
  /\ it' = <<>>
  /\ middle' = 0
  /\ feature_dim' = 0
  /\ query' = 0
  /\ att_weights' = 0
  /\ raised' = NoException
  /\ result' = NoModel
  /\ UNCHANGED parser

Init ==
  /\ parser = <<>>
  /\ flags \in Flags
  /\ pc = "model_parameters"
  /\ rnn = "None"
  /\ layers = <<>>
  /\ net = 0
  /\ input_audio = 0
  /\ it = <<>>
  /\ middle = 0
  /\ feature_dim = 0
  /\ query = 0
  /\ att_weights = 0
  /\ raised = NoException
  /\ result = NoModel
  /\ prev = NoPrev

Next ==
  \/ AddArgument
  \/ ParametersReturn
  \/ SelectRnn
  \/ CreateInput
  \/ SpeechFeatures
  \/ ExpandDims
  \/ ConvFor
  \/ Conv2D
  \/ BatchNormalization
  \/ Reshape
  \/ Bidirectional
  \/ MidQuery
  \/ AttDot
  \/ AttSoftmax
  \/ AttApply
  \/ Dropout
  \/ HiddenDense
  \/ FinalDense
  \/ ReturnModel
  \/ \E f \in {flags} \cup FlagsAgain : ModelCall(f)

Spec == Init /\ [][Next]_vars
\* ------------------------------------------------------- graph observations

Kinds == [i \in DOMAIN layers |-> layers[i].kind]

Indices(kind) == {i \in DOMAIN layers : layers[i].kind = kind}

RECURSIVE Rep(_, _)
Rep(s, n) == IF n <= 0 THEN <<>> ELSE s \o Rep(s, n - 1)

\* The order of stages named by the architecture: nc convolution blocks,
\* nr recurrent layers, nd hidden Dense layers.
StageKinds(nc, nr, nd) ==
  <<"Input", "SpeechFeatures", "expand_dims">>
  \o Rep(<<"Conv2D", "BatchNormalization">>, nc)
  \o <<"Reshape">>
  \o Rep(<<"Bidirectional">>, nr)
  \o <<"slice", "Dense", "Dot", "Softmax", "Dot", "Dropout">>
  \o Rep(<<"Dense">>, nd)
  \o <<"Dense">>

\* Layers that an input of the model reaches, scanning in creation order.
RECURSIVE FromInputs(_, _)
FromInputs(k, S) ==
  IF k > Len(layers) THEN S
  ELSE FromInputs(k + 1,
         IF Range(layers[k].inbound) \cap S # {} THEN S \cup {k} ELSE S)

\* Layers from which an output of the model is reached, scanning backwards.
RECURSIVE ToOutputs(_, _)
ToOutputs(k, S) ==
  IF k = 0 THEN S
  ELSE ToOutputs(k - 1,
         IF k \in S THEN S \cup Range(layers[k].inbound) ELSE S)

ValidFlags == flags.rnn_type \in DOMAIN rnn_types

\* ------------------------------------------------------------------ claims

\* C1: model_parameters registers exactly eleven hyperparameters, each by
\* one add_argument call, with pairwise distinct names and the stated
\* defaults, and does nothing else to the parser.
C1_Registered ==
  /\ \A i \in DOMAIN parser : parser[i].method = "add_argument"
  /\ \A i, j \in DOMAIN parser : parser[i].name = parser[j].name => i = j
  /\ pc # "model_parameters" =>
       /\ Len(parser) = 11
       /\ {<<parser[i].name, parser[i].default>> : i \in DOMAIN parser} =
            { <<"--cnn_filters", "10,1">>,
              <<"--cnn_kernel_size", "(5,1),(5,1)">>,
              <<"--cnn_act", "'relu','relu'">>,
              <<"--cnn_dilation_rate", "(1,1),(1,1)">>,
              <<"--cnn_strides", "(1,1),(1,1)">>,
              <<"--rnn_layers", "2">>,
              <<"--rnn_type", "lstm">>,
              <<"--rnn_units", "64">>,
              <<"--dropout1", "0.5">>,
              <<"--units2", "64,32">>,
              <<"--act2", "'relu','linear'">> }

C1_Witness == pc = "select_rnn" /\ Len(parser) = 11 /\ prev = NoPrev

\* C2: for valid flags the call returns a graph that is one chain of stages
\* in the order Input, SpeechFeatures, expand_dims, convolution blocks,
\* Reshape, Bidirectional layers, attention pooling, Dropout, hidden Dense
\* layers, final Dense; every layer reads only layers created before it,
\* every layer lies on a path from the input to the output, and the model
\* has the Input as its only input and the final Dense as its only output.
C2_Chain ==
  /\ pc = "failed" => ~ValidFlags
  /\ pc = "done" =>
       /\ \E nc \in 0..Len(flags.cnn_filters), nd \in 0..Len(flags.units2) :
            Kinds = StageKinds(nc, flags.rnn_layers, nd)
       /\ \A i \in DOMAIN layers :
            \A j \in Range(layers[i].inbound) : 1 <= j /\ j < i
       /\ \A i \in DOMAIN layers : i > 1 => (i - 1) \in Range(layers[i].inbound)
       /\ result.inputs = <<1>>
       /\ Indices("Input") = {1}
       /\ layers[1].inbound = <<>>
       /\ result.outputs = <<Len(layers)>>
       /\ layers[Len(layers)].cfg.units = flags.label_count
       /\ FromInputs(1, Range(result.inputs)) = DOMAIN layers
       /\ ToOutputs(Len(layers), Range(result.outputs)) = DOMAIN layers

C2_Witness ==
  /\ pc = "done"
  /\ Cardinality(Indices("Conv2D")) = 2
  /\ Cardinality(Indices("Bidirectional")) = 2
  /\ Cardinality(Indices("Dense")) = 4

\* C3: the accepted values of rnn_type are exactly 'rnn' and 'lstm', the
\* ones the help text announces, each building the matching cell type.
C3_HelpTextTypes ==
  pc \notin {"model_parameters", "select_rnn"} =>
    /\ pc # "failed" <=> flags.rnn_type \in {"rnn", "lstm"}
    /\ pc # "failed" =>
         rnn = IF flags.rnn_type = "lstm" THEN "LSTM" ELSE "SimpleRNN"

\* C5: with an unsupported rnn_type the call fails with
\* ValueError('not supported RNN type ', rnn_type) before any layer exists.
C5_ValueError ==
  (pc = "failed" /\ ~ValidFlags) =>
    /\ raised = [type |-> "ValueError",
                 args |-> <<"not supported RNN type ", flags.rnn_type>>]
    /\ layers = <<>>

\* The attention head of a graph whose pooled Dot has been created.
AttentionBuilt == pc \in {"dropout", "dense", "return", "done"}

SliceOf == layers[query].inbound[1]
SequenceOf == layers[SliceOf].inbound[1]
PooledOf == att_weights + 1

\* C4: the attention head pools over the output of the last Bidirectional
\* layer; with T >= 1 its time length, the query comes from the frame at
\* index floor(T/2), 0 <= floor(T/2) < T, the Softmax weights have one
\* entry per time step, and the pooled result has no time axis.
C4_MiddleQuery ==
  AttentionBuilt =>
    LET seq == layers[SequenceOf]
        T == seq.shape[2]
        F == seq.shape[3]
        B == seq.shape[1]
        idx == layers[SliceOf].cfg.index
    IN /\ T >= 1
       /\ flags.rnn_layers >= 1 =>
            /\ seq.kind = "Bidirectional"
            /\ \A j \in Indices("Bidirectional") : j <= SequenceOf
       /\ layers[SliceOf].kind = "slice"
       /\ idx = middle
       /\ 2 * idx <= T /\ T < 2 * idx + 2
       /\ 0 <= idx /\ idx < T
       /\ layers[query].kind = "Dense" /\ layers[query].shape = <<B, F>>
       /\ layers[att_weights].kind = "Softmax"
       /\ layers[att_weights].shape = <<B, T>>
       /\ layers[layers[att_weights].inbound[1]].inbound = <<query, SequenceOf>>
       /\ layers[PooledOf].kind = "Dot"
       /\ layers[PooledOf].inbound = <<att_weights, SequenceOf>>
       /\ layers[PooledOf].shape = <<B, F>>

C4_Witness ==
  /\ pc = "done"
  /\ layers[SequenceOf].kind = "Bidirectional"
  /\ layers[SequenceOf].shape[2] = 3
  /\ middle = 1

MinLen5 ==
  Min(Len(flags.cnn_filters), Min(Len(flags.cnn_kernel_size),
    Min(Len(flags.cnn_act), Min(Len(flags.cnn_dilation_rate),
      Len(flags.cnn_strides)))))

\* Indices of the layers of one kind, in creation order.
InOrder(kind) ==
  SelectSeq([i \in DOMAIN layers |-> i], LAMBDA i : layers[i].kind = kind)

\* Hidden Dense layers: those after Dropout, the final Dense excluded.
HiddenOf ==
  SelectSeq([i \in DOMAIN layers |-> i],
            LAMBDA i : /\ layers[i].kind = "Dense"
                       /\ i < Len(layers)
                       /\ \E d \in Indices("Dropout") : d < i)

\* C6: the number of convolution blocks is the minimum of the lengths of
\* the five parsed cnn_* lists, block i uses the i-th element of each list,
\* surplus elements are dropped without an error, every Conv2D is followed
\* at once by exactly one BatchNormalization, and the number of hidden Dense
\* layers is min(len(units2), len(act2)).
C6_ZipCounts ==
  /\ ValidFlags => pc # "failed"
  /\ pc = "done" =>
       LET convs == InOrder("Conv2D")
           hidden == HiddenOf
       IN /\ Len(convs) = MinLen5
          /\ \A k \in DOMAIN convs :
               /\ layers[convs[k]].cfg =
                    [filters |-> flags.cnn_filters[k],
                     kernel_size |-> flags.cnn_kernel_size[k],
                     activation |-> flags.cnn_act[k],
                     dilation_rate |-> flags.cnn_dilation_rate[k],
                     strides |-> flags.cnn_strides[k],
                     padding |-> "same"]
               /\ convs[k] + 1 \in Indices("BatchNormalization")
               /\ convs[k] + 2 \notin Indices("BatchNormalization")
          /\ Cardinality(Indices("BatchNormalization")) = Len(convs)
          /\ Len(hidden) = Min(Len(flags.units2), Len(flags.act2))
          /\ \A k \in DOMAIN hidden :
               layers[hidden[k]].cfg =
                 [units |-> flags.units2[k], activation |-> flags.act2[k]]

C6_Witness ==
  /\ pc = "done"
  /\ MinLen5 = 1
  /\ Len(flags.cnn_kernel_size) = 2
  /\ Len(flags.cnn_strides) = 1
  /\ Cardinality(Indices("Conv2D")) = 1

====
